---- MODULE Spec2Model ----
(***************************************************************************)
(* Model of the CircularBuffer of src/main.go: a fixed-size ring of        *)
(* float64 values guarded by a sync.RWMutex.                               *)
(*                                                                         *)
(* Spec      the four methods as atomic calls of one caller                *)
(* ConcSpec  several goroutines, each method cut into the statements it    *)
(*           executes between Lock/RLock and the deferred unlock           *)
(* LiveSpec      the same goroutines under a fair scheduler                *)
(* DistinctSpec  goroutines pushing distinct non-zero values and popping   *)
(* DemoSpec      the run of main                                           *)
(* CtorSpec      NewCircularBuffer called with any size, then the methods  *)
(* DrainSpec     pushes and runs of consecutive Pops of one caller         *)
(*                                                                         *)
(* Stored values are small non-negative integers (exactly representable    *)
(* float64 values); a quotient is kept as a reduced fraction, which        *)
(* determines the float64 the division returns.                            *)
(***************************************************************************)
EXTENDS Integers, Sequences, FiniteSets, TLC

\* ---------------------------------------------------------------- bounds
MaxSize == 3
MaxValue == 2
NumThreads == 2
DistinctMax == 3
ConcMaxSize == 2
ConcMaxValue == 1
MaxReads == 3

Sizes == 1..MaxSize
Values == 0..MaxValue
Threads == 1..NumThreads

VARIABLES
    buffer,     \* cb.buffer: slot index 0..size-1 -> value
    size,       \* cb.size
    head,       \* cb.head
    tail,       \* cb.tail
    count,      \* cb.count
    mutex,      \* cb.mutex: w = the goroutine that has announced itself as writer,
                \* writer = the goroutine holding the write lock (0 = none),
                \* readers = the goroutines holding the read lock,
                \* waiting = the goroutines blocked in RLock
    pc,         \* per goroutine: the statement it is at
    local,      \* per goroutine: the locals of the method it is executing
    last,       \* the last completed call of Spec: method, argument, results, fields before it
    ref,        \* reference bounded FIFO queue driven by the same calls
    reads,      \* the Average / PrintBuffer calls made since the last Push or Pop
    plainRets,  \* the values returned so far by a Push that evicted nothing
    demo,       \* main: its loop variable, the statement it is at, what Push returned to it
    moved,      \* the values goroutines have pushed, and those Pop and Push have handed back
    drain       \* the current run of consecutive Pop calls: the queue it began on, its returns

cbVars == <<buffer, size, head, tail, count>>
histVars == <<demo, moved, drain>>
vars == <<buffer, size, head, tail, count, mutex, pc, local, last, ref, reads, plainRets,
          demo, moved, drain>>

\* ------------------------------------------------------------- arithmetic
RECURSIVE GCD(_, _)
GCD(a, b) == IF b = 0 THEN a ELSE GCD(b, a % b)

\* sum / float64(n) for an integer-valued sum and n > 0, as a reduced fraction
Quotient(sum, n) ==
    LET g == GCD(sum, n)
    IN  [num |-> sum \div g, den |-> n \div g]

\* the float64 constant 0 returned by Average / Pop on an empty buffer
Zero == [num |-> 0, den |-> 1]

\* fmt "%.2f " applied to an integer-valued float64
Fmt2(v) == ToString(v) \o ".00 "

\* -------------------------------------------------------------- the ring
\* NewCircularBuffer: make([]float64, size) zero-fills the slots
NewBuffer(n) == [i \in 0..(n - 1) |-> 0]

\* bug variant of Index: the loops start at head instead of tail
IndexFromHead(i) == (head + i) % size

\* the slot the loops of Average and PrintBuffer read at iteration i
Index(i) == (tail + i) % size

\* the live elements, oldest first, as those loops traverse them
Contents == [i \in 1..count |-> buffer[Index(i - 1)]]

\* snapshot of the five fields
CB == [buffer |-> buffer, size |-> size, head |-> head, tail |-> tail, count |-> count]

ContentsOf(cb) == [i \in 1..cb.count |-> cb.buffer[(cb.tail + i - 1) % cb.size]]

\* bug variant of Full: the test written with > instead of ==
FullStrict == count > size

\* if cb.count == cb.size
Full == count = size

\* bug variant of Empty: the test written with < instead of ==
EmptyNegative == count < 0

\* if cb.count == 0
Empty == count = 0

\* bug variant of Advance: stays on the last slot instead of wrapping
AdvanceStuck(x) == IF x + 1 = size THEN x ELSE x + 1

\* bug variant of Advance: the modulo is missing
AdvanceNoWrap(x) == x + 1

\* bug variant of Advance: steps over one slot
AdvanceTwo(x) == (x + 2) % size

\* (x + 1) % cb.size: move an index forward, wrapping around
Advance(x) == (x + 1) % size

\* bug variant of Evicted: the slot is read after tail has moved on
EvictedAfterAdvance == buffer[Advance(tail)]

\* poppedItem = cb.buffer[cb.tail], in Push on a full buffer
Evicted == buffer[tail]

\* Average's loop: sum of buffer[(tail+i) % size] for i in 0..n-1
RECURSIVE SumLoop(_)
SumLoop(n) == IF n = 0 THEN 0 ELSE SumLoop(n - 1) + buffer[Index(n - 1)]

\* bug variant of AverageResult: loops and divides over size instead of count
AverageOverSize == IF Empty THEN Zero ELSE Quotient(SumLoop(size), size)

\* the value Average returns
AverageResult == IF Empty THEN Zero ELSE Quotient(SumLoop(count), count)

\* what PrintBuffer writes after the heading
PrintOutput ==
    IF Empty THEN <<"empty">>
    ELSE [i \in 1..count |-> Fmt2(buffer[Index(i - 1)])]

\* ------------------------------------------------- reference FIFO queue
RefPush(q, v, cap) == IF Len(q) = cap THEN Tail(q) \o <<v>> ELSE q \o <<v>>
RefPop(q) == IF q = <<>> THEN q ELSE Tail(q)

RECURSIVE SeqSum(_)
SeqSum(q) == IF q = <<>> THEN 0 ELSE Head(q) + SeqSum(Tail(q))

\* ------------------------------------------------------------ call record
NoCall == [op |-> "none", item |-> 0, ret |-> 0, ok |-> FALSE, avg |-> Zero,
           out |-> <<>>, pre |-> CB]

Called(op, item, ret, ok, avg, out) ==
    [op |-> op, item |-> item, ret |-> ret, ok |-> ok, avg |-> avg, out |-> out, pre |-> CB]

\* what the reference queue answers to a call
NoAnswer == [ret |-> 0, ok |-> FALSE, sum |-> 0, n |-> 0, out |-> <<>>]

\* a goroutine's frame: the method it runs, its argument, its locals and results,
\* and the reference queue's answer taken while it held the lock
NoLocal == [op |-> "none", item |-> 0, poppedItem |-> 0, ok |-> FALSE, i |-> 0, sum |-> 0,
            avg |-> Zero, out |-> <<>>, exp |-> NoAnswer]

Unlocked == [w |-> 0, writer |-> 0, readers |-> {}, waiting |-> {}]

\* main before it starts; no value moved yet; no run of Pop calls under way
NoDemo == [pc |-> "off", i |-> 0, popped |-> <<>>, out |-> <<>>, average |-> Zero]
NoMoved == [pushed |-> {}, popped |-> <<>>, evicted |-> <<>>]
NoDrain == [start |-> <<>>, rets |-> <<>>]

\* ------------------------------------------------------------------ Init
\* &CircularBuffer{buffer: make([]float64, n), size: n}: head, tail, count and
\* the mutex are zero values
Fresh(n) ==
    /\ size = n
    /\ buffer = NewBuffer(n)
    /\ head = 0
    /\ tail = 0
    /\ count = 0
    /\ mutex = Unlocked
    /\ pc = [t \in Threads |-> "idle"]
    /\ local = [t \in Threads |-> NoLocal]
    /\ ref = <<>>
    /\ reads = <<>>
    /\ plainRets = {}
    /\ demo = NoDemo
    /\ moved = NoMoved
    /\ drain = NoDrain

\* NewCircularBuffer(size) with size > 0
Init ==
    /\ \E n \in Sizes : Fresh(n)
    /\ last = NoCall

\* --------------------------------------------------------- atomic methods
\* bug variant of Push: poppedItem is read before the test, full or not
PushReturnsStale(item) ==
    /\ IF Full
       THEN /\ tail' = Advance(tail)
            /\ count' = count
            /\ plainRets' = plainRets
       ELSE /\ count' = count + 1
            /\ tail' = tail
            /\ plainRets' = plainRets \cup {Evicted}
    /\ last' = Called("Push", item, Evicted, FALSE, Zero, <<>>)
    /\ buffer' = [buffer EXCEPT ![head] = item]
    /\ head' = Advance(head)
    /\ ref' = RefPush(ref, item, size)
    /\ reads' = <<>>
    /\ UNCHANGED <<size, mutex, pc, local>>

\* bug variant of Push: a full buffer grows by one slot instead of evicting
PushGrows(item) ==
    /\ IF Full
       THEN /\ size' = size + 1
            /\ buffer' = [i \in 0..size |-> IF i < size THEN buffer[i] ELSE item]
            /\ head' = head
       ELSE /\ size' = size
            /\ buffer' = [buffer EXCEPT ![head] = item]
            /\ head' = Advance(head)
    /\ count' = count + 1
    /\ tail' = tail
    /\ last' = Called("Push", item, 0, FALSE, Zero, <<>>)
    /\ plainRets' = plainRets \cup {0}
    /\ ref' = ref \o <<item>>
    /\ reads' = <<>>
    /\ UNCHANGED <<mutex, pc, local>>

\* Push(item): the whole method
Push(item) ==
    /\ IF Full
       THEN /\ tail' = Advance(tail)
            /\ count' = count
            /\ last' = Called("Push", item, Evicted, FALSE, Zero, <<>>)
            /\ plainRets' = plainRets
       ELSE /\ count' = count + 1
            /\ tail' = tail
            /\ last' = Called("Push", item, 0, FALSE, Zero, <<>>)
            /\ plainRets' = plainRets \cup {0}
    /\ buffer' = [buffer EXCEPT ![head] = item]
    /\ head' = Advance(head)
    /\ ref' = RefPush(ref, item, size)
    /\ reads' = <<>>
    /\ UNCHANGED <<size, mutex, pc, local>>

\* bug variant of Pop: moves head instead of tail
PopMovesHead ==
    /\ IF Empty
       THEN /\ last' = Called("Pop", 0, 0, FALSE, Zero, <<>>)
            /\ UNCHANGED <<head, count>>
       ELSE /\ last' = Called("Pop", 0, buffer[tail], TRUE, Zero, <<>>)
            /\ head' = Advance(head)
            /\ count' = count - 1
    /\ ref' = RefPop(ref)
    /\ reads' = <<>>
    /\ UNCHANGED <<buffer, size, tail, mutex, pc, local, plainRets>>

\* bug variant of Pop: rewinds tail to slot 0 when the buffer becomes empty
PopResetsTail ==
    /\ IF Empty
       THEN /\ last' = Called("Pop", 0, 0, FALSE, Zero, <<>>)
            /\ UNCHANGED <<tail, count>>
       ELSE /\ last' = Called("Pop", 0, buffer[tail], TRUE, Zero, <<>>)
            /\ tail' = IF count = 1 THEN 0 ELSE Advance(tail)
            /\ count' = count - 1
    /\ ref' = RefPop(ref)
    /\ reads' = <<>>
    /\ UNCHANGED <<buffer, size, head, mutex, pc, local, plainRets>>

\* bug variant of Pop: hands back the newest element and steps head back
PopNewest ==
    /\ IF Empty
       THEN /\ last' = Called("Pop", 0, 0, FALSE, Zero, <<>>)
            /\ UNCHANGED <<head, count>>
       ELSE /\ last' = Called("Pop", 0, buffer[(head + size - 1) % size], TRUE, Zero, <<>>)
            /\ head' = (head + size - 1) % size
            /\ count' = count - 1
    /\ ref' = RefPop(ref)
    /\ reads' = <<>>
    /\ UNCHANGED <<buffer, size, tail, mutex, pc, local, plainRets>>

\* Pop(): the whole method
Pop ==
    /\ IF Empty
       THEN /\ last' = Called("Pop", 0, 0, FALSE, Zero, <<>>)
            /\ UNCHANGED <<tail, count>>
       ELSE /\ last' = Called("Pop", 0, buffer[tail], TRUE, Zero, <<>>)
            /\ tail' = Advance(tail)
            /\ count' = count - 1
    /\ ref' = RefPop(ref)
    /\ reads' = <<>>
    /\ UNCHANGED <<buffer, size, head, mutex, pc, local, plainRets>>

\* Average(): the whole method
Average ==
    /\ Len(reads) < MaxReads
    /\ last' = Called("Average", 0, 0, FALSE, AverageResult, <<>>)
    /\ reads' = Append(reads, [op |-> "Average", avg |-> AverageResult, out |-> <<>>])
    /\ UNCHANGED <<buffer, size, head, tail, count, mutex, pc, local, ref, plainRets>>

\* bug variant of PrintBuffer: consumes what it prints
PrintBufferDraining ==
    /\ Len(reads) < MaxReads
    /\ last' = Called("PrintBuffer", 0, 0, FALSE, Zero, PrintOutput)
    /\ reads' = Append(reads, [op |-> "PrintBuffer", avg |-> Zero, out |-> PrintOutput])
    /\ tail' = Index(count)
    /\ count' = 0
    /\ UNCHANGED <<buffer, size, head, mutex, pc, local, ref, plainRets>>

\* PrintBuffer(): the whole method
PrintBuffer ==
    /\ Len(reads) < MaxReads
    /\ last' = Called("PrintBuffer", 0, 0, FALSE, Zero, PrintOutput)
    /\ reads' = Append(reads, [op |-> "PrintBuffer", avg |-> Zero, out |-> PrintOutput])
    /\ UNCHANGED <<buffer, size, head, tail, count, mutex, pc, local, ref, plainRets>>

Next ==
    \/ \E item \in Values : Push(item) /\ UNCHANGED histVars
    \/ Pop /\ UNCHANGED histVars
    \/ Average /\ UNCHANGED histVars
    \/ PrintBuffer /\ UNCHANGED histVars

Spec == Init /\ [][Next]_vars

\* ------------------------------------------------------------------ main
\* cb := NewCircularBuffer(5)
DemoSize == 5
\* for i := 0; i < 7; i++
DemoPushes == 7
\* if i >= 5
ReportFrom == 5

\* main on a buffer of DemoSize slots or fewer
DemoInit ==
    /\ \E n \in 1..DemoSize : Fresh(n)
    /\ last = NoCall

demoFrame == <<mutex, pc, local, moved, drain>>

\* for i := 0
MainStart ==
    /\ demo.pc = "off"
    /\ demo' = [demo EXCEPT !.pc = "push"]
    /\ UNCHANGED <<cbVars, last, ref, reads, plainRets, demoFrame>>

\* popped := cb.Push(float64(i))
MainPush ==
    /\ demo.pc = "push"
    /\ Push(demo.i)
    /\ demo' = [demo EXCEPT !.pc = "report", !.popped = Append(@, last'.ret)]
    /\ UNCHANGED <<moved, drain>>

\* fmt.Printf("Pushed %.2f", float64(i)); if i >= 5 { fmt.Printf(", Popped %.2f", popped) }
MainReport ==
    /\ demo.pc = "report"
    /\ demo' = [demo EXCEPT
                  !.pc = "print",
                  !.out = Append(@, IF demo.i >= ReportFrom
                                    THEN <<Fmt2(demo.i), Fmt2(demo.popped[Len(demo.popped)])>>
                                    ELSE <<Fmt2(demo.i)>>)]
    /\ UNCHANGED <<cbVars, last, ref, reads, plainRets, demoFrame>>

\* cb.PrintBuffer(); i++; i < 7
MainPrint ==
    /\ demo.pc = "print"
    /\ last' = Called("PrintBuffer", 0, 0, FALSE, Zero, PrintOutput)
    /\ demo' = [demo EXCEPT !.i = @ + 1,
                            !.pc = IF demo.i + 1 < DemoPushes THEN "push" ELSE "average"]
    /\ UNCHANGED <<cbVars, ref, reads, plainRets, demoFrame>>

\* fmt.Printf("Average: %.2f\n", cb.Average())
MainAverage ==
    /\ demo.pc = "average"
    /\ last' = Called("Average", 0, 0, FALSE, AverageResult, <<>>)
    /\ demo' = [demo EXCEPT !.pc = "done", !.average = AverageResult]
    /\ UNCHANGED <<cbVars, ref, reads, plainRets, demoFrame>>

DemoNext ==
    \/ MainStart
    \/ MainPush
    \/ MainReport
    \/ MainPrint
    \/ MainAverage

DemoSpec == DemoInit /\ [][DemoNext]_vars

\* ------------------------------------------- construction with any size
\* the sizes a caller may pass, non-positive ones included
AnySizes == ((0 - 1)..0) \cup Sizes

\* the goroutine has panicked: nothing runs after it
Panicked == last.op = "panic"

\* NewCircularBuffer(n), unvalidated: make([]float64, n) panics when n < 0
\* (len out of range), else a buffer of n slots and size n is returned
NewCircularBuffer(n) ==
    /\ Fresh(n)
    /\ last = IF n < 0 THEN [NoCall EXCEPT !.op = "panic"] ELSE NoCall

CtorInit == \E n \in AnySizes : NewCircularBuffer(n)

\* Push on a full buffer reads cb.buffer[cb.tail]: with no slot at tail the
\* index is out of range and the goroutine panics
PushPanics(item) ==
    /\ Full
    /\ tail \notin DOMAIN buffer
    /\ last' = Called("panic", item, 0, FALSE, Zero, <<>>)
    /\ UNCHANGED <<buffer, size, head, tail, count, mutex, pc, local, ref, reads, plainRets>>

CtorNext ==
    \/ \E item \in Values :
          /\ ~Panicked
          /\ ~(Full /\ tail \notin DOMAIN buffer)
          /\ Push(item)
          /\ UNCHANGED histVars
    \/ \E item \in Values : ~Panicked /\ PushPanics(item) /\ UNCHANGED histVars
    \/ ~Panicked /\ Pop /\ UNCHANGED histVars
    \/ ~Panicked /\ Average /\ UNCHANGED histVars
    \/ ~Panicked /\ PrintBuffer /\ UNCHANGED histVars

CtorSpec == CtorInit /\ [][CtorNext]_vars

\* ------------------------------------------------------------- goroutines
Methods == {"Push", "Pop", "Average", "PrintBuffer"}
ConcValues == 0..ConcMaxValue

ConcInit == Init /\ size <= ConcMaxSize

\* bug variant of Entry: Pop takes the read lock
EntryPopShared(op) == IF op = "Push" THEN "Lock" ELSE "RLock"

\* bug variant of Entry: Push takes the read lock
EntryPushShared(op) == IF op = "Pop" THEN "Lock" ELSE "RLock"

\* the first statement of each method: cb.mutex.Lock() or cb.mutex.RLock()
Entry(op) == IF op \in {"Push", "Pop"} THEN "Lock" ELSE "RLock"

\* the deferred statement of each method: cb.mutex.Unlock() or cb.mutex.RUnlock()
Exit(op) == IF op \in {"Push", "Pop"} THEN "Unlock" ELSE "RUnlock"

\* the statement after the lock is taken
Body(op) ==
    CASE op = "Push" -> "PushTest"
      [] op = "Pop" -> "PopTest"
      [] op = "Average" -> "AvgTest"
      [] OTHER -> "PrintTest"

\* the reference queue's answer to method op with argument item
Answer(op, item) ==
    CASE op = "Push" ->
            [NoAnswer EXCEPT !.ret = IF Len(ref) = size THEN Head(ref) ELSE 0]
      [] op = "Pop" ->
            IF ref = <<>> THEN NoAnswer
            ELSE [NoAnswer EXCEPT !.ret = Head(ref), !.ok = TRUE]
      [] op = "Average" ->
            [NoAnswer EXCEPT !.sum = SeqSum(ref), !.n = Len(ref)]
      [] OTHER ->
            [NoAnswer EXCEPT !.out = IF ref = <<>> THEN <<"empty">>
                                     ELSE [i \in 1..Len(ref) |-> Fmt2(ref[i])]]

RefAfter(op, item) ==
    CASE op = "Push" -> RefPush(ref, item, size)
      [] op = "Pop" -> RefPop(ref)
      [] OTHER -> ref

\* the frame of a fresh call
Frame(op, item) == [NoLocal EXCEPT !.op = op, !.item = item]

\* the lock is granted to t, whose frame is f: it enters the method's body; the
\* reference queue takes the call at this instant
Enter(t, f) ==
    /\ pc' = [pc EXCEPT ![t] = Body(f.op)]
    /\ local' = [local EXCEPT ![t] = [f EXCEPT !.exp = Answer(f.op, f.item)]]
    /\ ref' = RefAfter(f.op, f.item)

\* t, whose frame is f, blocks inside the mutex at label
Park(t, f, label) ==
    /\ pc' = [pc EXCEPT ![t] = label]
    /\ local' = [local EXCEPT ![t] = f]
    /\ ref' = ref

Goto(t, label) == pc' = [pc EXCEPT ![t] = label]

\* the method returns to its caller: the frame is gone
Return(t) ==
    /\ pc' = [pc EXCEPT ![t] = "idle"]
    /\ local' = [local EXCEPT ![t] = NoLocal]

seqVars == <<last, reads, plainRets, demo, drain>>

\* sync.RWMutex.Lock once the writers' mutex is free: take it and announce the
\* writer, which turns later RLock calls away; hold the lock if no reader is
\* active, else block until the active readers have left
WriteLock(t, f) ==
    IF mutex.readers = {}
    THEN /\ mutex' = [mutex EXCEPT !.w = t, !.writer = t]
         /\ Enter(t, f)
    ELSE /\ mutex' = [mutex EXCEPT !.w = t]
         /\ Park(t, f, "LockWait")

\* sync.RWMutex.RLock: take the read lock at once if no writer is announced,
\* else block until that writer's Unlock
ReadLock(t, f) ==
    IF mutex.w = 0
    THEN /\ mutex' = [mutex EXCEPT !.readers = @ \cup {t}]
         /\ Enter(t, f)
    ELSE /\ mutex' = [mutex EXCEPT !.waiting = @ \cup {t}]
         /\ Park(t, f, "RLockWait")

\* a goroutine calls a method of the shared buffer and runs its first statement,
\* cb.mutex.Lock() or cb.mutex.RLock()
Call(t, op, item) ==
    /\ pc[t] = "idle"
    /\ IF Entry(op) = "Lock"
       THEN IF mutex.w = 0
            THEN WriteLock(t, Frame(op, item))
            ELSE /\ mutex' = mutex
                 /\ Park(t, Frame(op, item), "Lock")
       ELSE ReadLock(t, Frame(op, item))
    /\ UNCHANGED <<cbVars, seqVars>>

\* a writer that found the writers' mutex taken gets it
Lock(t) ==
    /\ pc[t] = "Lock"
    /\ mutex.w = 0
    /\ WriteLock(t, local[t])
    /\ UNCHANGED <<cbVars, seqVars>>

\* the announced writer proceeds once the active readers have left
LockGranted(t) ==
    /\ pc[t] = "LockWait"
    /\ mutex.readers = {}
    /\ mutex' = [mutex EXCEPT !.writer = t]
    /\ Enter(t, local[t])
    /\ UNCHANGED <<cbVars, seqVars>>

\* a blocked reader that the writer's Unlock has admitted resumes
RLockGranted(t) ==
    /\ pc[t] = "RLockWait"
    /\ t \in mutex.readers
    /\ Enter(t, local[t])
    /\ UNCHANGED <<cbVars, mutex, seqVars>>

\* deferred cb.mutex.Unlock(): admit the blocked readers, release the writers' mutex
Unlock(t) ==
    /\ pc[t] = "Unlock"
    /\ mutex' = [w |-> 0, writer |-> 0, readers |-> mutex.readers \cup mutex.waiting,
                 waiting |-> {}]
    /\ Return(t)
    /\ UNCHANGED <<cbVars, ref, seqVars>>

\* deferred cb.mutex.RUnlock()
RUnlock(t) ==
    /\ pc[t] = "RUnlock"
    /\ mutex' = [mutex EXCEPT !.readers = @ \ {t}]
    /\ Return(t)
    /\ UNCHANGED <<cbVars, ref, seqVars>>

\* Push: if cb.count == cb.size
PushTest(t) ==
    /\ pc[t] = "PushTest"
    /\ Goto(t, IF Full THEN "PushEvict" ELSE "PushCount")
    /\ UNCHANGED <<cbVars, mutex, local, ref, seqVars>>

\* Push: poppedItem = cb.buffer[cb.tail]
PushEvict(t) ==
    /\ pc[t] = "PushEvict"
    /\ local' = [local EXCEPT ![t].poppedItem = Evicted]
    /\ Goto(t, "PushTail")
    /\ UNCHANGED <<cbVars, mutex, ref, seqVars>>

\* Push: cb.tail = (cb.tail + 1) % cb.size
PushTail(t) ==
    /\ pc[t] = "PushTail"
    /\ tail' = Advance(tail)
    /\ Goto(t, "PushStore")
    /\ UNCHANGED <<buffer, size, head, count, mutex, local, ref, seqVars>>

\* Push: cb.count++
PushCount(t) ==
    /\ pc[t] = "PushCount"
    /\ count' = count + 1
    /\ Goto(t, "PushStore")
    /\ UNCHANGED <<buffer, size, head, tail, mutex, local, ref, seqVars>>

\* Push: cb.buffer[cb.head] = item
PushStore(t) ==
    /\ pc[t] = "PushStore"
    /\ buffer' = [buffer EXCEPT ![head] = local[t].item]
    /\ Goto(t, "PushHead")
    /\ UNCHANGED <<size, head, tail, count, mutex, local, ref, seqVars>>

\* Push: cb.head = (cb.head + 1) % cb.size; return poppedItem
PushHead(t) ==
    /\ pc[t] = "PushHead"
    /\ head' = Advance(head)
    /\ Goto(t, Exit("Push"))
    /\ UNCHANGED <<buffer, size, tail, count, mutex, local, ref, seqVars>>

\* bug variant of PopTest: the early return leaves without unlocking
PopTestLeaks(t) ==
    /\ pc[t] = "PopTest"
    /\ IF Empty
       THEN Return(t)
       ELSE /\ local' = local
            /\ Goto(t, "PopRead")
    /\ UNCHANGED <<cbVars, mutex, ref, seqVars>>

\* Pop: if cb.count == 0 { return 0, false }
PopTest(t) ==
    /\ pc[t] = "PopTest"
    /\ IF Empty
       THEN /\ local' = [local EXCEPT ![t].poppedItem = 0, ![t].ok = FALSE]
            /\ Goto(t, Exit("Pop"))
       ELSE /\ local' = local
            /\ Goto(t, "PopRead")
    /\ UNCHANGED <<cbVars, mutex, ref, seqVars>>

\* Pop: item := cb.buffer[cb.tail]
PopRead(t) ==
    /\ pc[t] = "PopRead"
    /\ local' = [local EXCEPT ![t].poppedItem = buffer[tail]]
    /\ Goto(t, "PopTail")
    /\ UNCHANGED <<cbVars, mutex, ref, seqVars>>

\* bug variant of PopTail: tail stays on the slot that was read
PopTailStays(t) ==
    /\ pc[t] = "PopTail"
    /\ Goto(t, "PopCount")
    /\ UNCHANGED <<cbVars, mutex, local, ref, seqVars>>

\* Pop: cb.tail = (cb.tail + 1) % cb.size
PopTail(t) ==
    /\ pc[t] = "PopTail"
    /\ tail' = Advance(tail)
    /\ Goto(t, "PopCount")
    /\ UNCHANGED <<buffer, size, head, count, mutex, local, ref, seqVars>>

\* Pop: cb.count--; return item, true
PopCount(t) ==
    /\ pc[t] = "PopCount"
    /\ count' = count - 1
    /\ local' = [local EXCEPT ![t].ok = TRUE]
    /\ Goto(t, Exit("Pop"))
    /\ UNCHANGED <<buffer, size, head, tail, mutex, ref, seqVars>>

\* Average: if cb.count == 0 { return 0 }; sum := 0.0
AvgTest(t) ==
    /\ pc[t] = "AvgTest"
    /\ IF Empty
       THEN /\ local' = [local EXCEPT ![t].avg = Zero]
            /\ Goto(t, Exit("Average"))
       ELSE /\ local' = [local EXCEPT ![t].sum = 0]
            /\ Goto(t, "AvgLoop")
    /\ UNCHANGED <<cbVars, mutex, ref, seqVars>>

\* Average: the loop over i < cb.count, then return sum / float64(cb.count)
AvgLoop(t) ==
    /\ pc[t] = "AvgLoop"
    /\ local' = [local EXCEPT ![t].i = count,
                              ![t].sum = @ + SumLoop(count),
                              ![t].avg = Quotient(local[t].sum + SumLoop(count), count)]
    /\ Goto(t, Exit("Average"))
    /\ UNCHANGED <<cbVars, mutex, ref, seqVars>>

\* PrintBuffer: if cb.count == 0 { fmt.Println("empty"); return }
PrintTest(t) ==
    /\ pc[t] = "PrintTest"
    /\ IF Empty
       THEN /\ local' = [local EXCEPT ![t].out = <<"empty">>]
            /\ Goto(t, Exit("PrintBuffer"))
       ELSE /\ local' = local
            /\ Goto(t, "PrintLoop")
    /\ UNCHANGED <<cbVars, mutex, ref, seqVars>>

\* PrintBuffer: the loop over i < cb.count, one Printf per element
PrintLoop(t) ==
    /\ pc[t] = "PrintLoop"
    /\ local' = [local EXCEPT ![t].i = count,
                              ![t].out = [i \in 1..count |-> Fmt2(buffer[Index(i - 1)])]]
    /\ Goto(t, Exit("PrintBuffer"))
    /\ UNCHANGED <<cbVars, mutex, ref, seqVars>>

ConcNext ==
    \E t \in Threads :
        \/ \E op \in Methods, item \in ConcValues :
              /\ (op # "Push" => item = 0)
              /\ Call(t, op, item)
              /\ UNCHANGED moved
        \/ Lock(t) /\ UNCHANGED moved
        \/ LockGranted(t) /\ UNCHANGED moved
        \/ RLockGranted(t) /\ UNCHANGED moved
        \/ Unlock(t) /\ UNCHANGED moved
        \/ RUnlock(t) /\ UNCHANGED moved
        \/ PushTest(t) /\ UNCHANGED moved
        \/ PushEvict(t) /\ UNCHANGED moved
        \/ PushTail(t) /\ UNCHANGED moved
        \/ PushCount(t) /\ UNCHANGED moved
        \/ PushStore(t) /\ UNCHANGED moved
        \/ PushHead(t) /\ UNCHANGED moved
        \/ PopTest(t) /\ UNCHANGED moved
        \/ PopRead(t) /\ UNCHANGED moved
        \/ PopTail(t) /\ UNCHANGED moved
        \/ PopCount(t) /\ UNCHANGED moved
        \/ AvgTest(t) /\ UNCHANGED moved
        \/ AvgLoop(t) /\ UNCHANGED moved
        \/ PrintTest(t) /\ UNCHANGED moved
        \/ PrintLoop(t) /\ UNCHANGED moved

ConcSpec == ConcInit /\ [][ConcNext]_vars

\* the statements between Lock() and the deferred Unlock(), those included
MutatorSection == {"PushTest", "PushEvict", "PushTail", "PushCount", "PushStore", "PushHead",
                   "PopTest", "PopRead", "PopTail", "PopCount", "Unlock"}

\* the statements between RLock() and the deferred RUnlock(), those included
ReaderSection == {"AvgTest", "AvgLoop", "PrintTest", "PrintLoop", "RUnlock"}

\* ------------------------------------------------------- fair scheduling
\* a step of goroutine t inside a call it has made, other than getting the
\* writers' mutex
Run(t) ==
    \/ LockGranted(t)
    \/ RLockGranted(t)
    \/ Unlock(t)
    \/ RUnlock(t)
    \/ PushTest(t)
    \/ PushEvict(t)
    \/ PushTail(t)
    \/ PushCount(t)
    \/ PushStore(t)
    \/ PushHead(t)
    \/ PopTest(t)
    \/ PopRead(t)
    \/ PopTail(t)
    \/ PopCount(t)
    \/ AvgTest(t)
    \/ AvgLoop(t)
    \/ PrintTest(t)
    \/ PrintLoop(t)

\* the same goroutines; the values pushed play no part in the locking, so every
\* Push carries the value 0
LiveNext ==
    \E t \in Threads :
        \/ \E op \in Methods : Call(t, op, 0) /\ UNCHANGED moved
        \/ Lock(t) /\ UNCHANGED moved
        \/ LockGranted(t) /\ UNCHANGED moved
        \/ RLockGranted(t) /\ UNCHANGED moved
        \/ Unlock(t) /\ UNCHANGED moved
        \/ RUnlock(t) /\ UNCHANGED moved
        \/ PushTest(t) /\ UNCHANGED moved
        \/ PushEvict(t) /\ UNCHANGED moved
        \/ PushTail(t) /\ UNCHANGED moved
        \/ PushCount(t) /\ UNCHANGED moved
        \/ PushStore(t) /\ UNCHANGED moved
        \/ PushHead(t) /\ UNCHANGED moved
        \/ PopTest(t) /\ UNCHANGED moved
        \/ PopRead(t) /\ UNCHANGED moved
        \/ PopTail(t) /\ UNCHANGED moved
        \/ PopCount(t) /\ UNCHANGED moved
        \/ AvgTest(t) /\ UNCHANGED moved
        \/ AvgLoop(t) /\ UNCHANGED moved
        \/ PrintTest(t) /\ UNCHANGED moved
        \/ PrintLoop(t) /\ UNCHANGED moved

\* the scheduler runs every runnable goroutine eventually; sync.Mutex hands the
\* writers' mutex to a goroutine that keeps waiting for it (starvation mode)
Fairness ==
    \A t \in Threads :
        /\ WF_vars(Run(t) /\ UNCHANGED moved)
        /\ SF_vars(Lock(t) /\ UNCHANGED moved)

LiveSpec == ConcInit /\ [][LiveNext]_vars /\ Fairness

\* ------------------------------------- goroutines pushing distinct values
\* the values handed to Push so far, returned or still inside the call
Handed == moved.pushed \cup {local[t].item : t \in {u \in Threads : local[u].op = "Push"}}

\* the callers number the values they push 1, 2, 3, ...: distinct and non-zero
NextValue == Cardinality(Handed) + 1

\* the caller of t's Push or Pop receives its results
Received(t) ==
    IF local[t].op = "Push"
    THEN [moved EXCEPT !.pushed = @ \cup {local[t].item},
                       !.evicted = IF local[t].poppedItem # 0
                                   THEN Append(@, local[t].poppedItem) ELSE @]
    ELSE IF local[t].ok
         THEN [moved EXCEPT !.popped = Append(@, local[t].poppedItem)]
         ELSE moved

DistinctNext ==
    \E t \in Threads :
        \/ NextValue <= DistinctMax /\ Call(t, "Push", NextValue) /\ UNCHANGED moved
        \/ Call(t, "Pop", 0) /\ UNCHANGED moved
        \/ Lock(t) /\ UNCHANGED moved
        \/ Unlock(t) /\ moved' = Received(t)
        \/ PushTest(t) /\ UNCHANGED moved
        \/ PushEvict(t) /\ UNCHANGED moved
        \/ PushTail(t) /\ UNCHANGED moved
        \/ PushCount(t) /\ UNCHANGED moved
        \/ PushStore(t) /\ UNCHANGED moved
        \/ PushHead(t) /\ UNCHANGED moved
        \/ PopTest(t) /\ UNCHANGED moved
        \/ PopRead(t) /\ UNCHANGED moved
        \/ PopTail(t) /\ UNCHANGED moved
        \/ PopCount(t) /\ UNCHANGED moved

DistinctSpec == ConcInit /\ [][DistinctNext]_vars

\* ------------------------------------------------ runs of consecutive Pops
\* a caller pops until the buffer is empty and once more; a Push ends the run
Drained == Len(drain.rets) > Len(drain.start)

\* the run after one more Pop: it starts with the elements stored at its first
\* Pop, in the order of their insertion
DrainAfter(ret, ok) ==
    [start |-> IF drain.rets = <<>> THEN ref ELSE drain.start,
     rets |-> Append(drain.rets, [ret |-> ret, ok |-> ok])]

DrainNext ==
    \/ \E item \in Values : Push(item) /\ drain' = NoDrain /\ UNCHANGED <<demo, moved>>
    \/ ~Drained /\ Pop /\ drain' = DrainAfter(last'.ret, last'.ok) /\ UNCHANGED <<demo, moved>>

DrainSpec == Init /\ [][DrainNext]_vars

\* ------------------------------------------------------ claims under Spec
Before == last.pre
OldContents == ContentsOf(last.pre)
WasFull == last.pre.count = last.pre.size
WasEmpty == last.pre.count = 0
Wrapped == tail + count > size

\* C1: after any sequence of Push and Pop calls on a buffer of capacity > 0,
\* 0 <= count <= capacity.
C1_CountWithinCapacity == 0 <= count /\ count <= size

\* a Push on a full buffer whose tail had already moved off slot 0 has just run
C1_Witness ==
    /\ last.op = "Push" /\ WasFull /\ count = size
    /\ last.pre.tail # 0

\* C2: Push(v) on a full buffer holding [v0, ..., v_{k-1}] returns v0, keeps
\* count equal to capacity and leaves [v1, ..., v_{k-1}, v], wherever tail points.
C2_PushFullEvictsOldest ==
    (last.op = "Push" /\ WasFull) =>
        /\ last.ret = OldContents[1]
        /\ count = size
        /\ Contents = Tail(OldContents) \o <<last.item>>

\* a Push on a full buffer of capacity >= 2 whose tail was not at slot 0 and whose
\* oldest element differed from the next one
C2_Witness ==
    /\ last.op = "Push" /\ WasFull
    /\ size >= 2 /\ last.pre.tail # 0
    /\ OldContents[1] # OldContents[2]
    /\ OldContents[1] # 0

\* C3: after any sequence of Push and Pop calls, the sequence PrintBuffer reads
\* (slots (tail + i) mod capacity, i in 0..count-1) equals a reference bounded FIFO
\* queue driven by the same calls, oldest first, empty when count = 0, and
\* PrintBuffer writes exactly that sequence.
C3_ContentsRefineFifo ==
    /\ Contents = ref
    /\ (count = 0) = (ref = <<>>)
    /\ last.op = "PrintBuffer" =>
          last.out = (IF ref = <<>> THEN <<"empty">>
                      ELSE [i \in 1..Len(ref) |-> Fmt2(ref[i])])

\* PrintBuffer has run on a wrapped, partly filled buffer whose elements differ
C3_Witness ==
    /\ last.op = "PrintBuffer"
    /\ Wrapped /\ 2 <= count /\ count < size
    /\ ref[1] # ref[2]
    /\ Len(last.out) = count

\* C4: Pop on an empty buffer, fresh or drained, returns (0, false) and leaves
\* head, tail, count, capacity and every slot unchanged.
C4_PopEmptyNoChange ==
    (last.op = "Pop" /\ WasEmpty) =>
        /\ last.ret = 0
        /\ last.ok = FALSE
        /\ CB = Before

\* a Pop has run on a buffer drained to empty, with stale values in its slots
C4_Witness ==
    /\ last.op = "Pop" /\ WasEmpty
    /\ last.pre.tail # 0
    /\ \E i \in 0..(size - 1) : buffer[i] # 0

\* C5: Pop on a non-empty buffer holding [v0, ..., v_{n-1}] returns (v0, true),
\* decrements count by one, advances tail to (tail + 1) mod capacity, leaves head
\* unchanged and leaves [v1, ..., v_{n-1}].
C5_PopReturnsOldest ==
    (last.op = "Pop" /\ ~WasEmpty) =>
        /\ last.ret = OldContents[1]
        /\ last.ok = TRUE
        /\ count = last.pre.count - 1
        /\ tail = (last.pre.tail + 1) % last.pre.size
        /\ head = last.pre.head
        /\ Contents = Tail(OldContents)

\* a Pop has run on a buffer of at least two elements whose tail wrapped to slot 0
C5_Witness ==
    /\ last.op = "Pop" /\ last.pre.count >= 2
    /\ last.pre.tail = size - 1 /\ tail = 0 /\ size >= 2
    /\ last.ret # 0

\* C6: Average returns 0 when count = 0 and otherwise the sum of exactly the
\* count live elements divided by count; evicted, popped and never written slots
\* do not contribute.
C6_AverageOfLive ==
    last.op = "Average" =>
        IF ref = <<>> THEN last.avg = Zero
        ELSE /\ last.avg.den > 0
             /\ last.avg.num * Len(ref) = SeqSum(ref) * last.avg.den

\* Average has run on a wrapped, partly filled buffer with a non-zero stale slot
C6_Witness ==
    /\ last.op = "Average"
    /\ Wrapped /\ 0 < count /\ count < size
    /\ \E i \in 0..(size - 1) :
          /\ buffer[i] # 0
          /\ \A j \in 0..(count - 1) : Index(j) # i
    /\ last.avg.num # 0

\* C9: Average and PrintBuffer leave head, tail, count, capacity and every slot
\* unchanged, and repeated calls of either with no Push or Pop in between give
\* the same result each time.
C9_ReadsRepeatable ==
    /\ last.op \in {"Average", "PrintBuffer"} => CB = Before
    /\ \A i, j \in 1..Len(reads) : reads[i].op = reads[j].op => reads[i] = reads[j]

\* Average, PrintBuffer, Average have run in a row on a non-empty buffer
C9_Witness ==
    /\ Len(reads) >= 3
    /\ reads[1].op = "Average" /\ reads[2].op = "PrintBuffer" /\ reads[3].op = "Average"
    /\ count > 0 /\ reads[1].avg # Zero

\* C10: a Push on a non-full buffer and a Push on a full buffer whose oldest
\* element is 0 never produce the same return.
C10_EvictionDistinguishable ==
    (last.op = "Push" /\ WasFull /\ OldContents[1] = 0) => last.ret \notin plainRets

\* C14: in every state reachable by Push and Pop with count > 0,
\* head = (tail + count) mod capacity; so head = tail whenever count = capacity.
C14_HeadFollowsTail ==
    count > 0 =>
        /\ head = (tail + count) % size
        /\ count = size => head = tail

\* a full, wrapped buffer of capacity >= 2 after a Pop and a refill
C14_Witness ==
    /\ count = size /\ size >= 2 /\ head = tail /\ head # 0
    /\ last.op = "Push" /\ ~WasFull

\* C15: for capacity > 0, in every reachable state 0 <= head < capacity and
\* 0 <= tail < capacity, so every slot Push, Pop, Average and PrintBuffer touch
\* exists and the modulus is never zero: none of them can fail.
C15_IndicesInRange ==
    /\ size > 0
    /\ DOMAIN buffer = 0..(size - 1)
    /\ head \in DOMAIN buffer
    /\ tail \in DOMAIN buffer
    /\ \A i \in 0..(count - 1) : Index(i) \in DOMAIN buffer

\* head has just wrapped from the last slot to slot 0 while tail sits on the last slot
C15_Witness ==
    /\ last.op = "Push" /\ size >= 2
    /\ last.pre.head = size - 1 /\ head = 0
    /\ tail = size - 1

\* C16: Push(v) on a non-full buffer returns 0 whatever the slots hold,
\* increments count by one, writes v into the slot at the old head, advances head
\* to (head + 1) mod capacity and leaves tail and every live element unchanged:
\* the contents become the old contents followed by v.
C16_PushNotFullAppends ==
    (last.op = "Push" /\ ~WasFull) =>
        /\ last.ret = 0
        /\ count = last.pre.count + 1
        /\ buffer = [last.pre.buffer EXCEPT ![last.pre.head] = last.item]
        /\ head = (last.pre.head + 1) % last.pre.size
        /\ tail = last.pre.tail
        /\ Contents = OldContents \o <<last.item>>

\* a Push on a partly filled buffer whose slot at tail and whose slot at head
\* held non-zero values
C16_Witness ==
    /\ last.op = "Push" /\ ~WasFull /\ last.pre.count >= 1
    /\ last.pre.buffer[last.pre.tail] # 0
    /\ last.pre.buffer[last.pre.head] # 0
    /\ last.pre.buffer[last.pre.head] # last.item

\* C17: the capacity and the number of slots are set at construction and left
\* unchanged by Push, Pop, Average and PrintBuffer.
C17_CapacityFixed ==
    /\ [][size' = size /\ DOMAIN buffer' = DOMAIN buffer]_vars
    /\ [](Cardinality(DOMAIN buffer) = size /\ size = last.pre.size)

\* a Push on a full buffer and then reads have run; the buffer has its slots
C17_Witness ==
    /\ Len(reads) = 2 /\ reads[1].op = "PrintBuffer" /\ reads[2].op = "Average"
    /\ count = size /\ size = MaxSize /\ Wrapped
    /\ Cardinality(DOMAIN buffer) = MaxSize

\* C18: whenever count = 0, fresh or drained, head = tail: the next Push writes its
\* value into the slot tail designates and a Pop right after it returns that value.
C18_EmptyMeansAligned ==
    /\ [](count = 0 => head = tail)
    /\ []((last.op = "Push" /\ WasEmpty) =>
             (tail = last.pre.tail /\ buffer[tail] = last.item /\ count = 1))
    /\ [][(last.op = "Push" /\ WasEmpty /\ last'.op = "Pop") =>
             (last'.ret = last.item /\ last'.ok)]_vars

\* a Push of a non-zero value has run on a buffer drained to empty away from slot 0
C18_Witness ==
    /\ last.op = "Push" /\ WasEmpty
    /\ last.pre.tail # 0 /\ last.item # 0
    /\ last.pre.buffer[last.pre.tail] # last.item

\* -------------------------------------------------- claims under ConcSpec
MutatorsInside == {t \in Threads : pc[t] \in MutatorSection}
ReadersInside == {t \in Threads : pc[t] \in ReaderSection}

\* C7: with several goroutines calling Push, Pop, Average and PrintBuffer, at
\* most one mutator is inside its critical section, and while it is inside no
\* reader and no other mutator is; two readers may be inside together.
C7_MutualExclusion ==
    /\ Cardinality(MutatorsInside) <= 1
    /\ MutatorsInside # {} => ReadersInside = {}

\* an Average and a PrintBuffer are inside their critical sections together, on
\* a non-empty buffer
C7_Witness ==
    \E t, u \in ReadersInside :
        /\ local[t].op = "Average" /\ local[u].op = "PrintBuffer"
        /\ pc[t] = "AvgLoop" /\ pc[u] = "PrintLoop"
        /\ count > 0

\* no field is half-way through an update
Consistent == head = (tail + count) % size /\ Contents = ref

\* the call of t has computed its results: they are the reference queue's answer
Agrees(t) ==
    LET f == local[t]
    IN  CASE f.op = "Push" -> f.poppedItem = f.exp.ret
          [] f.op = "Pop" -> f.poppedItem = f.exp.ret /\ f.ok = f.exp.ok
          [] f.op = "Average" ->
                IF f.exp.n = 0 THEN f.avg = Zero
                ELSE f.avg.den > 0 /\ f.avg.num * f.exp.n = f.exp.sum * f.avg.den
          [] OTHER -> f.out = f.exp.out

\* C8: under any interleaving every call returns what it returns in a sequential
\* order of the calls that respects their real-time order (each call takes effect
\* on the reference queue at one instant between its invocation and its return),
\* and Average and PrintBuffer never see a half-updated buffer.
C8_Linearizable ==
    /\ \A t \in Threads : pc[t] \in {"Unlock", "RUnlock"} => Agrees(t)
    /\ ReadersInside # {} => Consistent

\* an Average returns a non-zero result of a wrapped buffer while a Push that was
\* called during it waits for the lock
C8_Witness ==
    \E t, u \in Threads :
        /\ pc[t] = "RUnlock" /\ local[t].op = "Average" /\ local[t].avg # Zero
        /\ tail + count > size
        /\ pc[u] = "LockWait" /\ local[u].op = "Push"

\* --------------------------------------------- claims under DistinctSpec
\* the values handed back so far, then those still stored, oldest first
Accounted == moved.popped \o moved.evicted \o Contents

\* C19: when Push and Pop run concurrently with distinct non-zero pushed values,
\* the values removed (successful Pop returns and non-zero Push returns) and the
\* values still in the buffer together hold every pushed value exactly once:
\* none is lost, none is duplicated.  Stated between calls of Push and Pop,
\* over the pushes that have returned.
C19_NoValueLostOrDuplicated ==
    MutatorsInside = {} =>
        /\ {Accounted[k] : k \in 1..Len(Accounted)} = moved.pushed
        /\ Len(Accounted) = Cardinality(moved.pushed)

\* all the values have been pushed; Pop and eviction have each removed one, one
\* is still stored, and another goroutine waits for the lock
C19_Witness ==
    /\ MutatorsInside = {}
    /\ Cardinality(moved.pushed) = DistinctMax
    /\ moved.popped # <<>> /\ moved.evicted # <<>> /\ Contents # <<>>
    /\ \E t \in Threads : pc[t] = "Lock"

\* ------------------------------------------------ claims under DrainSpec
\* C20: on a buffer holding n live elements, n consecutive Pop calls return those
\* n elements in insertion order, each with ok = true, and leave count = 0; the
\* next Pop returns (0, false).
C20_DrainInOrder ==
    \A k \in 1..Len(drain.rets) :
        /\ k <= Len(drain.start) => drain.rets[k] = [ret |-> drain.start[k], ok |-> TRUE]
        /\ k > Len(drain.start) => drain.rets[k] = [ret |-> 0, ok |-> FALSE]
        /\ Len(drain.rets) >= Len(drain.start) => count = 0

\* a full buffer of the largest capacity, wrapped and holding different values,
\* has been popped empty and popped once more
C20_Witness ==
    /\ Len(drain.start) = MaxSize /\ Len(drain.rets) = MaxSize + 1
    /\ drain.start[1] # drain.start[2] /\ drain.start[1] # 0
    /\ tail # 0 /\ last.op = "Pop" /\ ~last.ok

\* ------------------------------------------------- claims under LiveSpec
\* goroutine t holds the lock or is queued inside it
InMutex(t) ==
    \/ mutex.w = t
    \/ mutex.writer = t
    \/ t \in mutex.readers
    \/ t \in mutex.waiting

C12_Safe ==
    \* no deadlock: while a call is under way, some goroutine in a call can step
    /\ (\E t \in Threads : pc[t] # "idle") =>
          \E t \in Threads : ENABLED (Run(t) \/ Lock(t))
    \* the lock is released on every return path
    /\ \A t \in Threads : pc[t] = "idle" => ~InMutex(t)
    \* no goroutine asks for the lock while it holds it
    /\ \A t \in Threads :
          /\ pc[t] = "Lock" => ~InMutex(t)
          /\ pc[t] = "LockWait" => (mutex.writer # t /\ t \notin mutex.readers)
          /\ pc[t] = "RLockWait" => (mutex.writer # t /\ mutex.w # t)
          /\ mutex.writer = t => pc[t] \in MutatorSection

\* C12: with any number of goroutines calling Push, Pop, Average and PrintBuffer,
\* no deadlock is reachable, every method releases the lock on every return path
\* (the early returns of Pop and Average included), no method asks for the lock
\* while holding it, and under fair scheduling every call made returns.
C12_NoDeadlockAndProgress ==
    /\ []C12_Safe
    /\ \A t \in Threads : (pc[t] # "idle") ~> (pc[t] = "idle")

\* a Pop has taken its early return on an empty buffer and is about to unlock,
\* while an Average is blocked behind it
C12_Witness ==
    \E t, u \in Threads :
        /\ pc[t] = "Unlock" /\ local[t].op = "Pop" /\ ~local[t].ok /\ count = 0
        /\ pc[u] = "RLockWait" /\ local[u].op = "Average" /\ u \in mutex.waiting

\* ------------------------------------------------- claims under DemoSpec
\* C13: on a new buffer of capacity 5, pushing 0,1,2,3,4,5,6 in order: the first
\* five pushes evict nothing and return 0, the push of 5 returns 0 as the evicted
\* value, the push of 6 returns 1, the contents end as [2,3,4,5,6] and the final
\* Average is 4.
C13_DemoRun ==
    /\ (size = 5 /\ demo.pc \in {"report", "print"}) =>
          LET wasFull == last.op = "Push" /\ last.pre.count = last.pre.size
          IN  /\ (demo.pc = "report" /\ demo.i < 5) => (~wasFull /\ last.ret = 0)
              /\ (demo.pc = "report" /\ demo.i = 5) => (wasFull /\ last.ret = 0)
              /\ (demo.pc = "report" /\ demo.i = 6) => (wasFull /\ last.ret = 1)
    /\ (size = 5 /\ demo.pc = "done") =>
          /\ demo.popped = <<0, 0, 0, 0, 0, 0, 1>>
          /\ Contents = <<2, 3, 4, 5, 6>>
          /\ demo.average = [num |-> 4, den |-> 1]

\* main has run to its end on the buffer of capacity 5
C13_Witness ==
    /\ size = 5 /\ demo.pc = "done" /\ demo.i = 7
    /\ Len(demo.popped) = 7 /\ Len(demo.out) = 7

\* ------------------------------------------------- claims under CtorSpec
\* C11: construction with capacity <= 0 is rejected: no buffer of capacity <= 0
\* is returned, so Push, Pop, Average and PrintBuffer never run on one (a method
\* that has run, or panicked half-way, ran on a buffer of positive capacity).
C11_NonPositiveRejected ==
    (last.op \in Methods \/ (Panicked /\ last.pre.size >= 0)) => last.pre.size > 0

====
